---- MODULE Spec2Model ----
(***************************************************************************)
(* The async actor driver of quickwit-actors (async_actor.rs): the task    *)
(* body async_actor_loop, one receive cycle process_msg, and the           *)
(* collaborators it calls (mailbox, context, kill switch, command          *)
(* processor, join handle).  Several actors may share one kill switch.     *)
(***************************************************************************)
EXTENDS Integers, Sequences, FiniteSets, TLC

\* ------------------------------------------------------------------ bounds

\* Pieces a string given to Host::from_str is put together from.
MaxPieces == 4

\* Messages one scenario may send to the actor of the single-actor scenario.
MaxMsgs == 3
\* Commands one scenario may send to the actor of the single-actor scenario.
MaxCmds == 1
\* Mailbox handles (the one spawn returns, plus clones) alive at once.
MaxMailboxes == 2
\* queue_capacity() of the modelled actors.
QueueCapacity == 2
\* Messages one scenario may send to actor X of the shared-switch scenario.
MaxSharedMsgs == 1

Actors == {"X", "Y"}

\* --------------------------------------------------------- program constants

\* Longest hostname is_valid_hostname accepts.
MaxHostnameLen == 253
\* Longest label is_valid_hostname accepts.
MaxLabelLen == 63

\* --------------------------------------------------------------- data model

\* ActorExitStatus; NoStatus stands for Option::None.
NoStatus == [kind |-> "None", err |-> ""]
Success == [kind |-> "Success", err |-> ""]
Quit == [kind |-> "Quit", err |-> ""]
Killed == [kind |-> "Killed", err |-> ""]
Panicked == [kind |-> "Panicked", err |-> ""]
Failure(e) == [kind |-> "Failure", err |-> e]

\* The errors a handler may wrap in Failure.
Errors == {"boom"}

\* What a user handler (initialize, process_message) may return as Err(_).
ErrStatuses == {Success, Quit, Killed} \cup {Failure(e) : e \in Errors}

\* Outcomes of initialize / process_message: Ok(()), Err(status), or a panic.
Ok == [tag |-> "Ok", status |-> NoStatus]
Err(s) == [tag |-> "Err", status |-> s]
Panic == [tag |-> "Panic", status |-> NoStatus]
HandlerResults == {Ok, Panic} \cup {Err(s) : s \in ErrStatuses}

\* Outcomes of finalize: Ok(()), Err(anyhow error), or a panic.
FinalizeResults == {"Ok", "Err", "Panic"}

\* Command variants dispatched by the command processor.
Commands == {"Pause", "Resume", "Observe", "Quit", "Kill"}

\* Result<CommandOrMessage, RecvError> of one recv_timeout call.
NoRecv == [tag |-> "None", cmd |-> "", msg |-> 0]
RecvCommand(c) == [tag |-> "Command", cmd |-> c, msg |-> 0]
RecvMessage(m) == [tag |-> "Message", cmd |-> "", msg |-> m]
RecvTimeoutErr == [tag |-> "Timeout", cmd |-> "", msg |-> 0]
RecvDisconnected == [tag |-> "Disconnected", cmd |-> "", msg |-> 0]

VARIABLES
    pc,              \* position of each actor's task in async_actor_loop
    exit_status_opt, \* the local exit_status_opt / exit_status of the loop
    actor_state,     \* ActorState atomic held by the context
    kill_switch,     \* the shared KillSwitch: TRUE once tripped
    msgq,            \* message lane of each mailbox (FIFO)
    cmdq,            \* command lane of each mailbox (FIFO)
    mailboxes,       \* live Mailbox handles outside the actor's own context
    recv_res,        \* command_or_msg_recv_res of the running receive cycle
    processed,       \* the actor's user state: messages given to process_message
    watch,           \* last value of the ObservableState watch channel
    join_status,     \* what ActorHandle::join resolved to (NoStatus: not yet)
    limits,          \* how many messages / commands the scenario sends
    tripped_by,      \* history: who tripped the kill switch ("": nobody yet)
    hist,            \* per-actor history of calls and events
    host,            \* the string given to Host::from_str, as runs of one character
    host_res         \* what is_valid_hostname and Host::from_str returned for it

vars == <<pc, exit_status_opt, actor_state, kill_switch, msgq, cmdq, mailboxes,
          recv_res, processed, watch, join_status, limits, tripped_by, hist,
          host, host_res>>

\* Positions at which the task, and with it the inbox, is gone.
EndPcs == {"done", "panicked"}

NoHist ==
    [ init_calls |-> 0,            \* initialize calls begun
      init_returned |-> FALSE,     \* initialize returned (Ok or Err)
      handler_err |-> NoStatus,    \* the Err(status) initialize/process_message returned
      err_in |-> "",               \* the handler that returned it
      err_at |-> 0,                \* process_message calls made when it returned
      decided |-> NoStatus,        \* the exit status first decided
      exit_calls |-> 0,            \* ctx.exit calls
      finalize_calls |-> 0,        \* finalize calls begun
      finalize_status |-> NoStatus,\* status passed to finalize
      sent |-> 0,                  \* messages enqueued so far
      cmds_sent |-> 0,             \* commands enqueued so far
      received |-> FALSE,          \* a recv_timeout call was made
      trip_phase |-> "",           \* where this task stood when the switch tripped
      cycles_after_kill |-> 0 ]    \* process_msg calls begun with the switch tripped

\* observable_state(): the projection of the actor's user state.
ObservableState(a) == processed[a]

\* ------------------------------------------------------------------- spawn

\* The actors right after spawn_async_actor: each task is posted, nothing
\* has run.
SpawnedState(spawned, lim) ==
    /\ pc = [a \in Actors |-> IF a \in spawned THEN "start" ELSE "absent"]
    /\ exit_status_opt = [a \in Actors |-> NoStatus]
    /\ actor_state = [a \in Actors |-> "Running"]
    /\ kill_switch = FALSE
    /\ msgq = [a \in Actors |-> <<>>]
    /\ cmdq = [a \in Actors |-> <<>>]
    /\ mailboxes = [a \in Actors |-> IF a \in spawned THEN 1 ELSE 0]
    /\ recv_res = [a \in Actors |-> NoRecv]
    /\ processed = [a \in Actors |-> <<>>]
    /\ watch = [a \in Actors |-> <<>>]
    /\ join_status = [a \in Actors |-> NoStatus]
    /\ limits = lim
    /\ tripped_by = ""
    /\ hist = [a \in Actors |-> NoHist]

\* No string has been given to Host::from_str.
NotParsed == [valid |-> FALSE, parsed |-> "none"]

\* State right after spawn_async_actor; the actor scenarios parse no host.
InitWith(spawned, lim) ==
    /\ SpawnedState(spawned, lim)
    /\ host = <<>>
    /\ host_res = NotParsed

Init ==
    InitWith({"X"}, [a \in Actors |->
        [msgs |-> MaxMsgs, cmds |-> MaxCmds]])

\* X and Y are spawned on one kill switch; X is sent messages, Y is sent
\* nothing (its mailbox can still be dropped); nobody sends commands.
InitShared ==
    InitWith(Actors, [a \in Actors |->
        [msgs |-> IF a = "X" THEN MaxSharedMsgs ELSE 0, cmds |-> 0]])

\* Positions of a task that is in the loop with its next kill-switch check
\* still ahead of any dispatch.
EarlyPcs == {"kill1", "recv", "kill2"}

\* Where the task of b stands with respect to its kill-switch checks:
\* "early": in the loop, no status yet, a check still ahead of any dispatch;
\* "late": past the second check of its receive cycle, about to dispatch;
\* "handler": inside a process_message call;
\* "decided": status decided (break pending, ctx.exit, finalize, publish);
\* "": not in the loop yet, or gone.
Phase(b) ==
    CASE pc[b] \in EarlyPcs -> "early"
      [] pc[b] = "yield" -> IF exit_status_opt[b] = NoStatus THEN "early" ELSE "decided"
      [] pc[b] = "dispatch" -> "late"
      [] pc[b] = "handler" -> "handler"
      [] pc[b] \in {"exit", "finalize", "finalizing", "finalize_failed",
                     "publish"} -> "decided"
      [] OTHER -> ""

\* The history after the kill switch is tripped (when `cond` holds and the
\* switch was not tripped before): where every task stood at that moment.
Trip(H, cond) ==
    IF cond /\ ~kill_switch
    THEN [b \in Actors |-> [H[b] EXCEPT !.trip_phase = Phase(b)]]
    ELSE H

\* Who tripped the switch first.
TrippedBy(cond, src) == IF cond /\ ~kill_switch THEN src ELSE tripped_by

\* The history once the loop of an actor holds `s` in exit_status_opt.
Decide(h, s) ==
    IF h.decided = NoStatus THEN [h EXCEPT !.decided = s] ELSE h

\* The history once handler `which` has returned r.
Returned(h, which, r) ==
    IF r.tag = "Err"
    THEN Decide([h EXCEPT !.handler_err = r.status, !.err_in = which], r.status)
    ELSE h

\* ------------------------------------------------- collaborators (context)

\* KillSwitch::is_dead.
IsDead == kill_switch

\* ActorContext::exit: which statuses notify the kill switch.
ShouldActivateKillSwitch(s) == s.kind \in {"Failure", "Panicked"}

\* Mailbox::is_last_mailbox on the context's own mailbox: no other handle lives.
IsLastMailbox(a) == mailboxes[a] = 0

\* Inbox::recv_timeout(running): the outcomes one call may have now.  Commands
\* go first; messages are delivered only while running; with nothing to
\* deliver the call times out, or reports Disconnected once no sender is left.
RecvTimeout(a, running) ==
    IF cmdq[a] # <<>> THEN {RecvCommand(Head(cmdq[a]))}
    ELSE IF running /\ msgq[a] # <<>> THEN {RecvMessage(Head(msgq[a]))}
    ELSE {RecvTimeoutErr} \cup
         (IF running /\ mailboxes[a] = 0 /\ msgq[a] = <<>>
          THEN {RecvDisconnected} ELSE {})

\* process_command: the exit status a command yields.
CommandExitStatus(c) ==
    CASE c = "Quit" -> Quit
      [] c = "Kill" -> Killed
      [] OTHER -> NoStatus

\* process_command: the ActorState a command leaves.
CommandActorState(c, st) ==
    CASE c = "Pause" -> "Paused"
      [] c = "Resume" -> "Running"
      [] OTHER -> st

\* --------------------------------------------------- the loop's decisions


\* Result::err() replaced by a conversion of every Err into a Failure.
ResultErrAsFailure(r) == IF r.tag = "Err" THEN Failure("boom") ELSE NoStatus

\* Result::err() on what initialize / process_message returned.
ResultErr(r) == IF r.tag = "Err" THEN r.status ELSE NoStatus


\* A kill-switch check that never sees the switch.
KillSwitchCheckBlind(dead) == NoStatus

\* `if ctx.kill_switch().is_dead() { return Some(Killed) }`.
KillSwitchCheck(dead) == IF dead THEN Killed ELSE NoStatus


\* The Timeout arm without the is_last_mailbox() test.
OnTimeoutAlwaysSuccess(is_last) == Success


\* The Timeout arm that never ends the actor.
OnTimeoutNeverLast(is_last) == NoStatus

\* The Err(RecvError::Timeout) arm.
OnTimeout(is_last) == IF is_last THEN Success ELSE NoStatus

\* `if let Some(exit_status) = exit_status_opt { break exit_status; }`.
LoopBreaks(opt) == opt # NoStatus

\* ------------------------------------------------------- async_actor_loop

\* actor.initialize(&ctx) is called.
Initialize(a) ==
    /\ pc[a] = "start"
    /\ pc' = [pc EXCEPT ![a] = "initializing"]
    /\ hist' = [hist EXCEPT ![a].init_calls = @ + 1]
    /\ UNCHANGED <<exit_status_opt, actor_state, kill_switch, msgq, cmdq,
                   mailboxes, recv_res, processed, watch, join_status, limits,
                   host, host_res, tripped_by>>


\* InitializeReturn that drops what initialize returned.
InitializeReturnIgnored(a, r) ==
    /\ pc[a] = "initializing"
    /\ IF r.tag = "Panic"
       THEN /\ pc' = [pc EXCEPT ![a] = "panicked"]
            /\ UNCHANGED hist
       ELSE /\ pc' = [pc EXCEPT ![a] = "yield"]
            /\ hist' = [hist EXCEPT ![a] =
                  Returned([@ EXCEPT !.init_returned = TRUE], "initialize", r)]
    /\ UNCHANGED <<exit_status_opt, actor_state, kill_switch, msgq, cmdq,
                   mailboxes, recv_res, processed, watch, join_status, limits,
                   host, host_res,
                   tripped_by>>

\* initialize returns r (or panics); .err() becomes exit_status_opt.
InitializeReturn(a, r) ==
    /\ pc[a] = "initializing"
    /\ IF r.tag = "Panic"
       THEN /\ pc' = [pc EXCEPT ![a] = "panicked"]
            /\ UNCHANGED <<exit_status_opt, hist>>
       ELSE /\ pc' = [pc EXCEPT ![a] = "yield"]
            /\ exit_status_opt' = [exit_status_opt EXCEPT ![a] = ResultErr(r)]
            /\ hist' = [hist EXCEPT ![a] =
                  Returned([@ EXCEPT !.init_returned = TRUE], "initialize", r)]
    /\ UNCHANGED <<actor_state, kill_switch, msgq, cmdq, mailboxes, recv_res,
                   processed, watch, join_status, limits,
                   host, host_res, tripped_by>>


\* LoopTop with initialize moved inside the loop: every iteration that does
\* not break calls it again.
LoopTopReinitializes(a) ==
    /\ pc[a] = "yield"
    /\ pc' = [pc EXCEPT ![a] =
                IF LoopBreaks(exit_status_opt[a]) THEN "exit" ELSE "start"]
    /\ UNCHANGED <<exit_status_opt, actor_state, kill_switch, msgq, cmdq,
                   mailboxes, recv_res, processed, watch, join_status, limits,
                   host, host_res,
                   tripped_by, hist>>


\* LoopTop whose break goes straight to finalize, ahead of ctx.exit.
LoopTopBreaksToFinalize(a) ==
    /\ pc[a] = "yield"
    /\ pc' = [pc EXCEPT ![a] =
                IF LoopBreaks(exit_status_opt[a]) THEN "finalize" ELSE "kill1"]
    /\ UNCHANGED <<exit_status_opt, actor_state, kill_switch, msgq, cmdq,
                   mailboxes, recv_res, processed, watch, join_status, limits,
                   host, host_res,
                   tripped_by, hist>>

\* Top of the loop: after the yield, break if a status is decided, otherwise
\* enter process_msg.
LoopTop(a) ==
    /\ pc[a] = "yield"
    /\ pc' = [pc EXCEPT ![a] =
                IF LoopBreaks(exit_status_opt[a]) THEN "exit" ELSE "kill1"]
    /\ UNCHANGED <<exit_status_opt, actor_state, kill_switch, msgq, cmdq,
                   mailboxes, recv_res, processed, watch, join_status, limits,
                   host, host_res, tripped_by,
                   hist>>


\* process_msg without its first kill-switch check.
KillCheck1Skipped(a) ==
    /\ pc[a] = "kill1"
    /\ pc' = [pc EXCEPT ![a] = "recv"]
    /\ hist' = [hist EXCEPT ![a] =
          IF IsDead THEN [@ EXCEPT !.cycles_after_kill = @ + 1] ELSE @]
    /\ UNCHANGED <<exit_status_opt, actor_state, kill_switch, msgq, cmdq,
                   mailboxes, recv_res, processed, watch, join_status, limits,
                   host, host_res,
                   tripped_by>>

\* process_msg, first kill-switch check.
KillCheck1(a) ==
    /\ pc[a] = "kill1"
    /\ LET s == KillSwitchCheck(IsDead) IN
         /\ exit_status_opt' = [exit_status_opt EXCEPT ![a] = s]
         /\ pc' = [pc EXCEPT ![a] = IF s # NoStatus THEN "yield" ELSE "recv"]
         /\ hist' = [hist EXCEPT ![a] =
               LET h == IF IsDead
                        THEN [@ EXCEPT !.cycles_after_kill = @ + 1] ELSE @
               IN IF s # NoStatus THEN Decide(h, s) ELSE h]
    /\ UNCHANGED <<actor_state, kill_switch, msgq, cmdq, mailboxes, recv_res,
                   processed, watch, join_status, limits,
                   host, host_res, tripped_by>>


\* Recv that receives as if the actor were running, whatever its state.
RecvAsRunning(a) ==
    /\ pc[a] = "recv"
    /\ \E r \in RecvTimeout(a, TRUE) :
         /\ recv_res' = [recv_res EXCEPT ![a] = r]
         /\ cmdq' = [cmdq EXCEPT ![a] = IF r.tag = "Command" THEN Tail(@) ELSE @]
         /\ msgq' = [msgq EXCEPT ![a] = IF r.tag = "Message" THEN Tail(@) ELSE @]
    /\ pc' = [pc EXCEPT ![a] = "kill2"]
    /\ hist' = [hist EXCEPT ![a].received = TRUE]
    /\ UNCHANGED <<exit_status_opt, actor_state, kill_switch, mailboxes,
                   processed, watch, join_status, limits,
                   host, host_res, tripped_by>>


\* Recv that hands out a queued message ahead of the commands.
RecvMessagesFirst(a) ==
    /\ pc[a] = "recv"
    /\ \E r \in (IF actor_state[a] = "Running" /\ msgq[a] # <<>>
                 THEN {RecvMessage(Head(msgq[a]))}
                 ELSE RecvTimeout(a, actor_state[a] = "Running")) :
         /\ recv_res' = [recv_res EXCEPT ![a] = r]
         /\ cmdq' = [cmdq EXCEPT ![a] = IF r.tag = "Command" THEN Tail(@) ELSE @]
         /\ msgq' = [msgq EXCEPT ![a] = IF r.tag = "Message" THEN Tail(@) ELSE @]
    /\ pc' = [pc EXCEPT ![a] = "kill2"]
    /\ hist' = [hist EXCEPT ![a].received = TRUE]
    /\ UNCHANGED <<exit_status_opt, actor_state, kill_switch, mailboxes,
                   processed, watch, join_status, limits,
                   host, host_res, tripped_by>>

\* process_msg: inbox.recv_timeout(state == Running) completes with r.
Recv(a) ==
    /\ pc[a] = "recv"
    /\ \E r \in RecvTimeout(a, actor_state[a] = "Running") :
         /\ recv_res' = [recv_res EXCEPT ![a] = r]
         /\ cmdq' = [cmdq EXCEPT ![a] = IF r.tag = "Command" THEN Tail(@) ELSE @]
         /\ msgq' = [msgq EXCEPT ![a] = IF r.tag = "Message" THEN Tail(@) ELSE @]
    /\ pc' = [pc EXCEPT ![a] = "kill2"]
    /\ hist' = [hist EXCEPT ![a].received = TRUE]
    /\ UNCHANGED <<exit_status_opt, actor_state, kill_switch, mailboxes,
                   processed, watch, join_status, limits,
                   host, host_res, tripped_by>>


\* process_msg without its second kill-switch check.
KillCheck2Skipped(a) ==
    /\ pc[a] = "kill2"
    /\ pc' = [pc EXCEPT ![a] = "dispatch"]
    /\ UNCHANGED <<exit_status_opt, actor_state, kill_switch, msgq, cmdq,
                   mailboxes, recv_res, processed, watch, join_status, limits,
                   host, host_res, tripped_by, hist>>

\* process_msg, second kill-switch check: a tripped switch drops the item.
KillCheck2(a) ==
    /\ pc[a] = "kill2"
    /\ LET s == KillSwitchCheck(IsDead) IN
         /\ exit_status_opt' = [exit_status_opt EXCEPT ![a] = s]
         /\ pc' = [pc EXCEPT ![a] = IF s # NoStatus THEN "yield" ELSE "dispatch"]
         /\ recv_res' = [recv_res EXCEPT ![a] = IF s # NoStatus THEN NoRecv ELSE @]
         /\ hist' = [hist EXCEPT ![a] = IF s # NoStatus THEN Decide(@, s) ELSE @]
    /\ UNCHANGED <<actor_state, kill_switch, msgq, cmdq, mailboxes, processed,
                   watch, join_status, limits,
                   host, host_res, tripped_by>>


\* DispatchCommand that drops the exit status process_command returns.
DispatchCommandDropsStatus(a) ==
    /\ pc[a] = "dispatch"
    /\ recv_res[a].tag = "Command"
    /\ LET c == recv_res[a].cmd
           s == CommandExitStatus(c)
       IN /\ exit_status_opt' = [exit_status_opt EXCEPT ![a] = NoStatus]
          /\ actor_state' = [actor_state EXCEPT ![a] = CommandActorState(c, @)]
          /\ kill_switch' = (kill_switch \/ c = "Kill")
          /\ watch' = [watch EXCEPT ![a] =
                          IF c = "Observe" THEN ObservableState(a) ELSE @]
          /\ hist' = Trip([hist EXCEPT ![a] =
                             IF s # NoStatus THEN Decide(@, s) ELSE @],
                          c = "Kill")
          /\ tripped_by' = TrippedBy(c = "Kill", "command")
    /\ recv_res' = [recv_res EXCEPT ![a] = NoRecv]
    /\ pc' = [pc EXCEPT ![a] = "yield"]
    /\ UNCHANGED <<msgq, cmdq, mailboxes, processed, join_status, limits,
                   host, host_res>>

\* Ok(Command(cmd)) => process_command(actor, cmd, ctx, state_tx).
DispatchCommand(a) ==
    /\ pc[a] = "dispatch"
    /\ recv_res[a].tag = "Command"
    /\ LET c == recv_res[a].cmd
           s == CommandExitStatus(c)
       IN /\ exit_status_opt' = [exit_status_opt EXCEPT ![a] = s]
          /\ actor_state' = [actor_state EXCEPT ![a] = CommandActorState(c, @)]
          /\ kill_switch' = (kill_switch \/ c = "Kill")
          /\ watch' = [watch EXCEPT ![a] =
                          IF c = "Observe" THEN ObservableState(a) ELSE @]
          /\ hist' = Trip([hist EXCEPT ![a] =
                             IF s # NoStatus THEN Decide(@, s) ELSE @],
                          c = "Kill")
          /\ tripped_by' = TrippedBy(c = "Kill", "command")
    /\ recv_res' = [recv_res EXCEPT ![a] = NoRecv]
    /\ pc' = [pc EXCEPT ![a] = "yield"]
    /\ UNCHANGED <<msgq, cmdq, mailboxes, processed, join_status, limits,
                   host, host_res>>


\* DispatchMessage that starts process_message without awaiting it.
DispatchMessageDetached(a) ==
    /\ pc[a] = "dispatch"
    /\ recv_res[a].tag = "Message"
    /\ processed' = [processed EXCEPT ![a] = Append(@, recv_res[a].msg)]
    /\ recv_res' = [recv_res EXCEPT ![a] = NoRecv]
    /\ pc' = [pc EXCEPT ![a] = "yield"]
    /\ UNCHANGED <<exit_status_opt, actor_state, kill_switch, msgq, cmdq,
                   mailboxes, watch, join_status, limits,
                   host, host_res, tripped_by, hist>>

\* Ok(Message(msg)) => actor.process_message(msg, ctx) is called.
DispatchMessage(a) ==
    /\ pc[a] = "dispatch"
    /\ recv_res[a].tag = "Message"
    /\ processed' = [processed EXCEPT ![a] = Append(@, recv_res[a].msg)]
    /\ recv_res' = [recv_res EXCEPT ![a] = NoRecv]
    /\ pc' = [pc EXCEPT ![a] = "handler"]
    /\ UNCHANGED <<exit_status_opt, actor_state, kill_switch, msgq, cmdq,
                   mailboxes, watch, join_status, limits,
                   host, host_res, tripped_by, hist>>


\* ProcessMessageReturn that drops what process_message returned.
ProcessMessageReturnIgnored(a, r) ==
    /\ pc[a] = "handler"
    /\ IF r.tag = "Panic"
       THEN /\ pc' = [pc EXCEPT ![a] = "panicked"]
            /\ UNCHANGED hist
       ELSE /\ pc' = [pc EXCEPT ![a] = "yield"]
            /\ hist' = [hist EXCEPT ![a] =
                  [Returned(@, "process_message", r) EXCEPT !.err_at =
                      IF r.tag = "Err" THEN Len(processed[a]) ELSE @]]
    /\ UNCHANGED <<exit_status_opt, actor_state, kill_switch, msgq, cmdq,
                   mailboxes, recv_res, processed, watch, join_status, limits,
                   host, host_res,
                   tripped_by>>

\* process_message returns r (or panics); .err() is what process_msg returns.
ProcessMessageReturn(a, r) ==
    /\ pc[a] = "handler"
    /\ IF r.tag = "Panic"
       THEN /\ pc' = [pc EXCEPT ![a] = "panicked"]
            /\ UNCHANGED <<exit_status_opt, hist>>
       ELSE /\ pc' = [pc EXCEPT ![a] = "yield"]
            /\ exit_status_opt' = [exit_status_opt EXCEPT ![a] = ResultErr(r)]
            /\ hist' = [hist EXCEPT ![a] =
                  [Returned(@, "process_message", r) EXCEPT !.err_at =
                      IF r.tag = "Err" THEN Len(processed[a]) ELSE @]]
    /\ UNCHANGED <<actor_state, kill_switch, msgq, cmdq, mailboxes, recv_res,
                   processed, watch, join_status, limits,
                   host, host_res, tripped_by>>

\* Err(RecvError::Disconnected) => Some(Success).
DispatchDisconnected(a) ==
    /\ pc[a] = "dispatch"
    /\ recv_res[a].tag = "Disconnected"
    /\ exit_status_opt' = [exit_status_opt EXCEPT ![a] = Success]
    /\ hist' = [hist EXCEPT ![a] = Decide(@, Success)]
    /\ recv_res' = [recv_res EXCEPT ![a] = NoRecv]
    /\ pc' = [pc EXCEPT ![a] = "yield"]
    /\ UNCHANGED <<actor_state, kill_switch, msgq, cmdq, mailboxes, processed,
                   watch, join_status, limits,
                   host, host_res, tripped_by>>

\* Err(RecvError::Timeout) => Some(Success) if is_last_mailbox(), else None.
DispatchTimeout(a) ==
    /\ pc[a] = "dispatch"
    /\ recv_res[a].tag = "Timeout"
    /\ LET s == OnTimeout(IsLastMailbox(a)) IN
         /\ exit_status_opt' = [exit_status_opt EXCEPT ![a] = s]
         /\ hist' = [hist EXCEPT ![a] = IF s # NoStatus THEN Decide(@, s) ELSE @]
    /\ recv_res' = [recv_res EXCEPT ![a] = NoRecv]
    /\ pc' = [pc EXCEPT ![a] = "yield"]
    /\ UNCHANGED <<actor_state, kill_switch, msgq, cmdq, mailboxes, processed,
                   watch, join_status, limits,
                   host, host_res, tripped_by>>


\* The loop leaves without calling ctx.exit.
CtxExitSkipped(a) ==
    /\ pc[a] = "exit"
    /\ pc' = [pc EXCEPT ![a] = "finalize"]
    /\ UNCHANGED <<exit_status_opt, actor_state, kill_switch, msgq, cmdq,
                   mailboxes, recv_res, processed, watch, join_status, limits,
                   host, host_res,
                   tripped_by, hist>>

\* ctx.exit(&exit_status): state Exit, kill switch tripped for fatal statuses.
CtxExit(a) ==
    /\ pc[a] = "exit"
    /\ actor_state' = [actor_state EXCEPT ![a] = "Exit"]
    /\ kill_switch' = (kill_switch \/ ShouldActivateKillSwitch(exit_status_opt[a]))
    /\ hist' = Trip([hist EXCEPT ![a].exit_calls = @ + 1],
                    ShouldActivateKillSwitch(exit_status_opt[a]))
    /\ tripped_by' = TrippedBy(ShouldActivateKillSwitch(exit_status_opt[a]), "exit")
    /\ pc' = [pc EXCEPT ![a] = "finalize"]
    /\ UNCHANGED <<exit_status_opt, msgq, cmdq, mailboxes, recv_res, processed,
                   watch, join_status, limits,
                   host, host_res>>


\* Finalize that spares a killed actor the hook.
FinalizeSkipsKilled(a) ==
    /\ pc[a] = "finalize"
    /\ IF exit_status_opt[a] = Killed
       THEN /\ pc' = [pc EXCEPT ![a] = "publish"]
            /\ UNCHANGED hist
       ELSE /\ pc' = [pc EXCEPT ![a] = "finalizing"]
            /\ hist' = [hist EXCEPT ![a].finalize_calls = @ + 1,
                                    ![a].finalize_status = exit_status_opt[a]]
    /\ UNCHANGED <<exit_status_opt, actor_state, kill_switch, msgq, cmdq,
                   mailboxes, recv_res, processed, watch, join_status, limits,
                   host, host_res,
                   tripped_by>>

\* actor.finalize(&exit_status, &ctx) is called.
Finalize(a) ==
    /\ pc[a] = "finalize"
    /\ hist' = [hist EXCEPT ![a].finalize_calls = @ + 1,
                            ![a].finalize_status = exit_status_opt[a]]
    /\ pc' = [pc EXCEPT ![a] = "finalizing"]
    /\ UNCHANGED <<exit_status_opt, actor_state, kill_switch, msgq, cmdq,
                   mailboxes, recv_res, processed, watch, join_status, limits,
                   host, host_res, tripped_by>>


\* finalize returns r: Ok goes on to publish, Err to the error! branch; a
\* panic ends the task.
FinalizeReturn(a, r) ==
    /\ pc[a] = "finalizing"
    /\ pc' = [pc EXCEPT ![a] =
                CASE r = "Panic" -> "panicked"
                  [] r = "Err" -> "finalize_failed"
                  [] OTHER -> "publish"]
    /\ UNCHANGED <<exit_status_opt, actor_state, kill_switch, msgq, cmdq,
                   mailboxes, recv_res, processed, watch, join_status, limits,
                   host, host_res,
                   tripped_by, hist>>

\* LogFinalizeError that makes the error of finalize the exit status.
LogFinalizeErrorPropagates(a) ==
    /\ pc[a] = "finalize_failed"
    /\ pc' = [pc EXCEPT ![a] = "publish"]
    /\ exit_status_opt' = [exit_status_opt EXCEPT ![a] = Failure("boom")]
    /\ UNCHANGED <<actor_state, kill_switch, msgq, cmdq, mailboxes, recv_res,
                   processed, watch, join_status, limits,
                   host, host_res, tripped_by, hist>>

\* `if let Err(finalize_error) = ... { error!(...) }`: the error of finalize
\* is logged and dropped.
LogFinalizeError(a) ==
    /\ pc[a] = "finalize_failed"
    /\ pc' = [pc EXCEPT ![a] = "publish"]
    /\ UNCHANGED <<exit_status_opt, actor_state, kill_switch, msgq, cmdq,
                   mailboxes, recv_res, processed, watch, join_status, limits,
                   host, host_res,
                   tripped_by, hist>>


\* The task returns without publishing the final state.
ReturnWithoutPublish(a) ==
    /\ pc[a] = "publish"
    /\ pc' = [pc EXCEPT ![a] = "done"]
    /\ UNCHANGED <<exit_status_opt, actor_state, kill_switch, msgq, cmdq,
                   mailboxes, recv_res, processed, watch, join_status, limits,
                   host, host_res,
                   tripped_by, hist>>

\* state_tx.send(actor.observable_state()); the task returns exit_status.
PublishAndReturn(a) ==
    /\ pc[a] = "publish"
    /\ watch' = [watch EXCEPT ![a] = ObservableState(a)]
    /\ pc' = [pc EXCEPT ![a] = "done"]
    /\ UNCHANGED <<exit_status_opt, actor_state, kill_switch, msgq, cmdq,
                   mailboxes, recv_res, processed, join_status, limits,
                   host, host_res, tripped_by, hist>>

\* ------------------------------------------------------------ the handle

\* ActorHandle::join: the task's status, or Panicked for a panicked task, whose
\* observer also trips the kill switch.
Join(a) ==
    /\ pc[a] \in EndPcs
    /\ join_status[a] = NoStatus
    /\ join_status' = [join_status EXCEPT ![a] =
                          IF pc[a] = "done" THEN exit_status_opt[a] ELSE Panicked]
    /\ kill_switch' = (kill_switch \/ pc[a] = "panicked")
    /\ hist' = Trip(hist, pc[a] = "panicked")
    /\ tripped_by' = TrippedBy(pc[a] = "panicked", "panic")
    /\ UNCHANGED <<pc, exit_status_opt, actor_state, msgq, cmdq, mailboxes,
                   recv_res, processed, watch, limits,
                   host, host_res>>

\* ActorHandle::kill / KillSwitch::kill: trips the shared switch.
Kill ==
    /\ ~kill_switch
    /\ \E a \in Actors : pc[a] \notin EndPcs \cup {"absent"}
    /\ kill_switch' = TRUE
    /\ hist' = Trip(hist, TRUE)
    /\ tripped_by' = "handle"
    /\ UNCHANGED <<pc, exit_status_opt, actor_state, msgq, cmdq, mailboxes,
                   recv_res, processed, watch, join_status, limits,
                   host, host_res>>

\* ----------------------------------------------------------- the mailbox


\* Mailbox::send that never waits for a free slot.
SendUnbounded(a) ==
    /\ pc[a] \notin EndPcs \cup {"absent"}
    /\ mailboxes[a] > 0
    /\ hist[a].sent < limits[a].msgs
    /\ msgq' = [msgq EXCEPT ![a] = Append(@, hist[a].sent + 1)]
    /\ hist' = [hist EXCEPT ![a].sent = @ + 1]
    /\ UNCHANGED <<pc, exit_status_opt, actor_state, kill_switch, cmdq,
                   mailboxes, recv_res, processed, watch, join_status, limits,
                   host, host_res, tripped_by>>

\* Mailbox::send: enqueues the next message; suspended while the lane is full.
Send(a) ==
    /\ pc[a] \notin EndPcs \cup {"absent"}
    /\ mailboxes[a] > 0
    /\ hist[a].sent < limits[a].msgs
    /\ Len(msgq[a]) < QueueCapacity
    /\ msgq' = [msgq EXCEPT ![a] = Append(@, hist[a].sent + 1)]
    /\ hist' = [hist EXCEPT ![a].sent = @ + 1]
    /\ UNCHANGED <<pc, exit_status_opt, actor_state, kill_switch, cmdq,
                   mailboxes, recv_res, processed, watch, join_status, limits,
                   host, host_res, tripped_by>>

\* Mailbox::send_command (from a mailbox or from the handle's context).
SendCommand(a, c) ==
    /\ pc[a] \notin EndPcs \cup {"absent"}
    /\ hist[a].cmds_sent < limits[a].cmds
    /\ cmdq' = [cmdq EXCEPT ![a] = Append(@, c)]
    /\ hist' = [hist EXCEPT ![a].cmds_sent = @ + 1]
    /\ UNCHANGED <<pc, exit_status_opt, actor_state, kill_switch, msgq,
                   mailboxes, recv_res, processed, watch, join_status, limits,
                   host, host_res, tripped_by>>

\* Mailbox::clone.
CloneMailbox(a) ==
    /\ pc[a] \notin EndPcs
    /\ mailboxes[a] > 0
    /\ mailboxes[a] < MaxMailboxes
    /\ mailboxes' = [mailboxes EXCEPT ![a] = @ + 1]
    /\ UNCHANGED <<pc, exit_status_opt, actor_state, kill_switch, msgq, cmdq,
                   recv_res, processed, watch, join_status, limits,
                   host, host_res, tripped_by, hist>>

\* Drop of a Mailbox handle.
DropMailbox(a) ==
    /\ pc[a] \notin EndPcs
    /\ mailboxes[a] > 0
    /\ mailboxes' = [mailboxes EXCEPT ![a] = @ - 1]
    /\ UNCHANGED <<pc, exit_status_opt, actor_state, kill_switch, msgq, cmdq,
                   recv_res, processed, watch, join_status, limits,
                   host, host_res, tripped_by, hist>>

\* ------------------------------------------------------------ behaviours

\* One step of the task of actor a.
ActorStep(a) ==
    \/ Initialize(a)
    \/ \E r \in HandlerResults : InitializeReturn(a, r)
    \/ LoopTop(a)
    \/ KillCheck1(a)
    \/ Recv(a)
    \/ KillCheck2(a)
    \/ DispatchMessage(a)
    \/ \E r \in HandlerResults : ProcessMessageReturn(a, r)
    \/ DispatchDisconnected(a)
    \/ DispatchTimeout(a)
    \/ CtxExit(a)
    \/ Finalize(a)
    \/ \E r \in FinalizeResults : FinalizeReturn(a, r)
    \/ LogFinalizeError(a)
    \/ PublishAndReturn(a)

\* One step of the code around the actor: senders, mailbox owners, the handle.
EnvStep(a) ==
    \/ Send(a)
    \/ DropMailbox(a)
    \/ Join(a)

\* A command is sent, or the loop dispatches the command it received.
CommandStep(a) ==
    \/ \E c \in Commands : SendCommand(a, c)
    \/ DispatchCommand(a)

Next ==
    \/ \E a \in Actors : ActorStep(a)
    \/ \E a \in Actors : CommandStep(a)
    \/ \E a \in Actors : EnvStep(a)
    \/ \E a \in Actors : CloneMailbox(a)
    \/ Kill

\* One actor with its senders, its mailbox owners and its handle.
Spec == Init /\ [][Next]_vars

\* The shared-switch scenario sends no command and clones no mailbox, so no
\* command step and no clone can occur.
SharedNext ==
    \/ \E a \in Actors : ActorStep(a)
    \/ \E a \in Actors : EnvStep(a)
    \/ Kill

\* Two actors spawned on one kill switch.
SharedSpec == InitShared /\ [][SharedNext]_vars


\* The pause scenario: the caller sends Pause, then up to QueueCapacity
\* messages, then Resume, and no other command.
InitPause ==
    InitWith({"X"}, [a \in Actors |->
        [msgs |-> QueueCapacity, cmds |-> 2]])

\* send_command(Pause), the first thing the caller does.
SendPause(a) ==
    /\ hist[a].cmds_sent = 0
    /\ SendCommand(a, "Pause")

\* send_message while the Pause command is on its way or in effect.
SendAfterPause(a) ==
    /\ hist[a].cmds_sent = 1
    /\ Send(a)

\* send_command(Resume), at any time after Pause was sent.
SendResume(a) ==
    /\ hist[a].cmds_sent = 1
    /\ SendCommand(a, "Resume")

PauseNext ==
    \/ \E a \in Actors : ActorStep(a)
    \/ \E a \in Actors : DispatchCommand(a)
    \/ \E a \in Actors : SendPause(a)
    \/ \E a \in Actors : SendAfterPause(a)
    \/ \E a \in Actors : SendResume(a)
    \/ \E a \in Actors : DropMailbox(a)
    \/ \E a \in Actors : Join(a)
    \/ Kill

\* One actor that is paused, sent messages, and resumed.
PauseSpec == InitPause /\ [][PauseNext]_vars

\* Every step of the task of a, command dispatch included.
TaskStep(a) == ActorStep(a) \/ DispatchCommand(a)

\* The executor keeps running every task that can take a step, and every
\* handler call returns (or panics).
Fairness == \A a \in Actors : WF_vars(TaskStep(a))

FairSpec == Spec /\ Fairness

FairSharedSpec == SharedSpec /\ Fairness

FairPauseSpec == PauseSpec /\ Fairness

\* ---------------------------------------------------------------- claims


\* ------------------------------------------------------- net.rs: hostnames

\* A string is a sequence of runs [ch, n]: n times the character ch.  "a"
\* stands for an ASCII letter, "1" for an ASCII digit, "_" for a character
\* that is neither alphanumeric nor '-' nor '.'; all are one byte long.
Run(c, k) == [ch |-> c, n |-> k]

\* The pieces strings are put together from: one character, a long run of
\* letters, or either followed by a dot.
HostPieces ==
    LET words == {<<Run("a", 1)>>, <<Run("1", 1)>>,
                  <<Run("a", MaxLabelLen - 2)>>, <<Run("a", MaxLabelLen)>>}
    IN words
        \cup {w \o <<Run(".", 1)>> : w \in words}
        \cup {<<Run("-", 1)>>, <<Run(".", 1)>>, <<Run("_", 1)>>}

\* The pieces of p put one after the other.
RECURSIVE Concat(_)
Concat(p) == IF p = <<>> THEN <<>> ELSE Head(p) \o Concat(Tail(p))

\* The strings given to Host::from_str.
Hostnames ==
    {Concat(p) : p \in UNION {[1..k -> HostPieces] : k \in 0..MaxPieces}}

\* str::len of a string of runs.
RECURSIVE StrLen(_)
StrLen(s) == IF s = <<>> THEN 0 ELSE Head(s).n + StrLen(Tail(s))

\* char::is_ascii_alphanumeric.
IsAsciiAlphanumeric(ch) == ch \in {"a", "1"}

\* str::split('.'): the labels, each a string of runs (possibly empty).
RECURSIVE SplitDots(_)
SplitDots(s) ==
    IF s = <<>> THEN << <<>> >>
    ELSE LET rest == SplitDots(Tail(s)) IN
         IF Head(s).ch = "."
         THEN << <<>> >> \o rest
         ELSE << <<Head(s)>> \o Head(rest) >> \o Tail(rest)

\* str::starts_with('-') and str::ends_with('-').
StartsWithDash(s) == s # <<>> /\ s[1].ch = "-"
EndsWithDash(s) == s # <<>> /\ s[Len(s)].ch = "-"

\* is_valid_hostname that lets a label end with '-'.
IsValidHostnameTrailingDash(hostname) ==
    IF hostname = <<>> \/ StrLen(hostname) > MaxHostnameLen THEN FALSE
    ELSE IF ~(\A i \in 1..Len(hostname) :
                 \/ IsAsciiAlphanumeric(hostname[i].ch)
                 \/ hostname[i].ch = "-"
                 \/ hostname[i].ch = ".") THEN FALSE
    ELSE IF LET labels == SplitDots(hostname) IN
            \E i \in 1..Len(labels) :
                \/ labels[i] = <<>>
                \/ StrLen(labels[i]) > MaxLabelLen
                \/ StartsWithDash(labels[i]) THEN FALSE
    ELSE TRUE

\* is_valid_hostname.
IsValidHostname(hostname) ==
    IF hostname = <<>> \/ StrLen(hostname) > MaxHostnameLen THEN FALSE
    ELSE IF ~(\A i \in 1..Len(hostname) :
                 \/ IsAsciiAlphanumeric(hostname[i].ch)
                 \/ hostname[i].ch = "-"
                 \/ hostname[i].ch = ".") THEN FALSE
    ELSE IF LET labels == SplitDots(hostname) IN
            \E i \in 1..Len(labels) :
                \/ labels[i] = <<>>
                \/ StrLen(labels[i]) > MaxLabelLen
                \/ StartsWithDash(labels[i])
                \/ EndsWithDash(labels[i]) THEN FALSE
    ELSE TRUE

\* host.parse::<IpAddr>() succeeds: over these characters, a dotted quad of
\* one to three digits each (the digit "1" keeps every part below 256).
ParsesAsIpAddr(s) ==
    LET parts == SplitDots(s) IN
        /\ Len(parts) = 4
        /\ \A i \in 1..4 :
               /\ parts[i] # <<>>
               /\ StrLen(parts[i]) <= 3
               /\ \A j \in 1..Len(parts[i]) : parts[i][j].ch = "1"

\* Host::from_str: which variant it returns, or Err.
FromStr(s) ==
    IF ParsesAsIpAddr(s) THEN "IpAddr"
    ELSE IF IsValidHostname(s) THEN "Hostname"
    ELSE "Err"

\* A caller has one string to parse.
InitHost ==
    /\ SpawnedState({}, [a \in Actors |-> [msgs |-> 0, cmds |-> 0]])
    /\ host \in Hostnames
    /\ host_res = NotParsed

\* is_valid_hostname(host) and host.parse::<Host>() are evaluated.
ParseHost ==
    /\ host_res = NotParsed
    /\ host_res' = [valid |-> IsValidHostname(host), parsed |-> FromStr(host)]
    /\ UNCHANGED <<pc, exit_status_opt, actor_state, kill_switch, msgq, cmdq,
                   mailboxes, recv_res, processed, watch, join_status, limits,
                   tripped_by, hist, host>>

HostNext == ParseHost

\* Strings are validated and parsed as hosts.
HostSpec == InitHost /\ [][HostNext]_vars

\* The actors a scenario has spawned.
Spawned == {a \in Actors : pc[a] # "absent"}

\* C1: initialize is called exactly once per actor, and that call has returned
\* before any process_message call begins: nothing is passed to
\* process_message before or while initialize runs.
C1_InitializeOnceBeforeMessages ==
    \A a \in Spawned :
        /\ hist[a].init_calls <= 1
        /\ pc[a] # "start" => hist[a].init_calls = 1
        /\ pc[a] \in {"start", "initializing"} =>
               /\ processed[a] = <<>>
               /\ ~hist[a].init_returned
        /\ (processed[a] # <<>> \/ pc[a] = "handler") => hist[a].init_returned

\* C1 witness: a message is in process_message, after the one initialize call.
C1_Witness ==
    /\ pc["X"] = "handler"
    /\ Len(processed["X"]) = 2
    /\ hist["X"].init_calls = 1

\* C2: for an actor whose initialize returned and whose task does not panic,
\* finalize is called exactly once, whatever the exit status, and with the
\* status that join resolves to.
C2_FinalizeOnceWithJoinStatus ==
    \A a \in Spawned :
        /\ hist[a].finalize_calls <= 1
        /\ pc[a] = "done" =>
               /\ hist[a].init_returned
               /\ hist[a].finalize_calls = 1
               /\ hist[a].finalize_status = exit_status_opt[a]
        /\ join_status[a] \notin {NoStatus, Panicked} =>
               /\ hist[a].finalize_calls = 1
               /\ hist[a].finalize_status = join_status[a]

\* C2 witness: join resolved to Killed after initialize returned Ok, and
\* finalize ran with Killed.
C2_Witness ==
    /\ join_status["X"] = Killed
    /\ hist["X"].handler_err = NoStatus
    /\ hist["X"].finalize_calls = 1
    /\ hist["X"].finalize_status = Killed

\* C3: once the loop has decided an exit status nothing changes it: neither a
\* kill-switch trip after the decision nor an error of finalize; the task
\* returns, and join yields, the status first decided.
C3_StatusNotOverwritten ==
    \A a \in Spawned :
        /\ hist[a].decided # NoStatus => exit_status_opt[a] = hist[a].decided
        /\ exit_status_opt[a] # NoStatus => hist[a].decided = exit_status_opt[a]
        /\ pc[a] = "done" => hist[a].decided # NoStatus
        /\ join_status[a] \notin {NoStatus, Panicked} =>
               join_status[a] = hist[a].decided

\* C3 witness: the switch was tripped by kill() after Success was decided,
\* finalize has returned an error, and the status the task goes on to return
\* is still Success.
C3_Witness ==
    /\ pc["X"] = "finalize_failed"
    /\ tripped_by = "handle"
    /\ hist["X"].trip_phase = "decided"
    /\ hist["X"].decided = Success
    /\ exit_status_opt["X"] = Success

\* C4 as claimed: an actor whose loop was running, with no status decided,
\* when kill() was called, exits with Killed.
C4_KilledAfterKill ==
    \A a \in Spawned :
        (/\ tripped_by = "handle"
         /\ hist[a].trip_phase \in {"early", "late", "handler"}
         /\ pc[a] = "done")
        => exit_status_opt[a] = Killed

\* After kill(): at most one more receive cycle begins, and it decides Killed;
\* a task that had not passed the second kill-switch check of its cycle
\* dispatches nothing more and decides nothing but Killed.
KillBoundsTheLoop ==
    \A a \in Spawned :
        tripped_by = "handle" =>
            /\ hist[a].cycles_after_kill <= 1
            /\ hist[a].cycles_after_kill = 1 => hist[a].decided = Killed
            /\ hist[a].trip_phase = "early" =>
                   /\ pc[a] \notin {"dispatch", "handler"}
                   /\ hist[a].decided \in {NoStatus, Killed}
                   /\ pc[a] = "done" => exit_status_opt[a] = Killed

\* Every spawned task has ended.
AllEnded == \A a \in Spawned : pc[a] \in EndPcs

\* C4 as amended: after kill() the actor terminates (every handler call
\* returning), its loop begins at most one more receive cycle, and that cycle
\* decides Killed; an actor that had not passed the second kill-switch check
\* of its cycle when kill() was called dispatches nothing more and exits with
\* Killed, in Running and in Paused state, empty inbox or not.  (A cycle
\* already past that check keeps its own outcome.)
C4_KillEndsTheLoop ==
    /\ []KillBoundsTheLoop
    /\ (tripped_by = "handle") ~> AllEnded

\* C4 witness: a paused actor with an empty inbox has decided Killed after a
\* kill() that found it in the loop.
C4_Witness ==
    /\ tripped_by = "handle"
    /\ hist["X"].trip_phase = "early"
    /\ actor_state["X"] = "Paused"
    /\ msgq["X"] = <<>> /\ cmdq["X"] = <<>>
    /\ hist["X"].cycles_after_kill = 1
    /\ exit_status_opt["X"] = Killed

\* C5 as claimed: a sender enqueues m1..mk (k within the capacity) and every
\* mailbox is dropped, all handlers return Ok, no kill, no command: the task
\* returns Success having passed exactly m1..mk, in order, to process_message,
\* and the watch holds the state after mk.
C5_SentThenDroppedIsDrained ==
    \A a \in Spawned :
        (/\ pc[a] = "done"
         /\ hist[a].handler_err = NoStatus
         /\ ~kill_switch
         /\ hist[a].cmds_sent = 0
         /\ mailboxes[a] = 0
         /\ hist[a].sent <= QueueCapacity)
        => /\ processed[a] = [i \in 1..hist[a].sent |-> i]
           /\ exit_status_opt[a] = Success
           /\ watch[a] = processed[a]

\* C6: when join resolves to Failure or Panicked the kill switch is tripped
\* (for Failure, from ctx.exit on); the exit of an actor with Success, Quit or
\* Killed (its ctx.exit, and the join of its task) leaves the switch as it was.
C6_FatalStatusesTripTheSwitch ==
    /\ [](\A a \in Spawned :
            /\ join_status[a].kind \in {"Failure", "Panicked"} => kill_switch
            /\ (hist[a].exit_calls = 1 /\ exit_status_opt[a].kind = "Failure")
                   => kill_switch)
    /\ [][\A a \in Spawned :
            (/\ exit_status_opt[a].kind \in {"Success", "Quit", "Killed"}
             /\ \/ pc[a] = "exit" /\ pc'[a] # "exit"
                \/ pc[a] = "done" /\ join_status'[a] # join_status[a])
            => kill_switch' = kill_switch]_vars

\* C6 witness: join resolved to Failure and ctx.exit was what tripped the switch.
C6_Witness ==
    /\ join_status["X"].kind = "Failure"
    /\ tripped_by = "exit"
    /\ kill_switch

\* C7 as claimed: whenever initialize or process_message returned an error the
\* exit status is a Failure and the kill switch is tripped.
C7_ErrMeansFailure ==
    \A a \in Spawned :
        (hist[a].handler_err # NoStatus /\ pc[a] = "done")
        => (exit_status_opt[a].kind = "Failure" /\ kill_switch)

\* C7 as amended: whenever initialize or process_message returned Err(status),
\* the exit status is that status; when it is a Failure the kill switch is
\* tripped from ctx.exit on.
C7_ErrStatusIsTheExitStatus ==
    \A a \in Spawned :
        hist[a].handler_err # NoStatus =>
            /\ exit_status_opt[a] = hist[a].handler_err
            /\ (hist[a].exit_calls = 1 /\ hist[a].handler_err.kind = "Failure")
                   => kill_switch
            /\ join_status[a] \notin {NoStatus, Panicked} =>
                   join_status[a] = hist[a].handler_err

\* C7 witness: process_message returned Err(Quit), join yields Quit, and the
\* switch is not tripped.
C7_Witness ==
    /\ hist["X"].handler_err = Quit
    /\ hist["X"].err_in = "process_message"
    /\ join_status["X"] = Quit
    /\ ~kill_switch

\* C8: when process_message returns Err(status) on the n-th message, that
\* message is consumed, no later message is ever passed to process_message,
\* the exit status is exactly that status, finalize is called with it, the
\* task returns it to join, and for a Failure the kill switch is tripped.
C8_ErrOnNthMessageEndsTheActor ==
    \A a \in Spawned :
        hist[a].err_in = "process_message" =>
            /\ Len(processed[a]) = hist[a].err_at
            /\ pc[a] # "handler"
            /\ recv_res[a].tag # "Message"
            /\ \A i \in 1..Len(msgq[a]) : msgq[a][i] > processed[a][hist[a].err_at]
            /\ exit_status_opt[a] = hist[a].handler_err
            /\ hist[a].finalize_calls = 1 =>
                   hist[a].finalize_status = hist[a].handler_err
            /\ pc[a] = "done" =>
                   /\ hist[a].finalize_calls = 1
                   /\ hist[a].handler_err.kind = "Failure" => kill_switch
            /\ join_status[a] \notin {NoStatus, Panicked} =>
                   join_status[a] = hist[a].handler_err

\* C8 witness: message 2 returned Err(Failure("boom")), message 3 is still
\* queued, finalize ran with the Failure and join yields it.
C8_Witness ==
    /\ hist["X"].err_in = "process_message"
    /\ processed["X"] = <<1, 2>>
    /\ msgq["X"] = <<3>>
    /\ hist["X"].finalize_status = Failure("boom")
    /\ join_status["X"] = Failure("boom")
    /\ kill_switch

\* C9: when initialize returns Err(Failure(e)), process_message is never
\* called and the inbox is never received from, queued messages or not;
\* finalize is called with Failure(e), join yields Failure(e), and the kill
\* switch is tripped.
C9_InitializeFailureSkipsTheLoop ==
    \A a \in Spawned :
        (hist[a].err_in = "initialize" /\ hist[a].handler_err.kind = "Failure") =>
            /\ processed[a] = <<>>
            /\ ~hist[a].received
            /\ pc[a] \notin {"kill1", "recv", "kill2", "dispatch", "handler"}
            /\ hist[a].finalize_calls = 1 =>
                   hist[a].finalize_status = hist[a].handler_err
            /\ pc[a] = "done" => (hist[a].finalize_calls = 1 /\ kill_switch)
            /\ join_status[a] \notin {NoStatus, Panicked} =>
                   (join_status[a] = hist[a].handler_err /\ kill_switch)

\* C9 witness: initialize failed with messages queued; finalize ran with the
\* Failure, join yields it, the messages are still queued.
C9_Witness ==
    /\ hist["X"].err_in = "initialize"
    /\ Len(msgq["X"]) = 2
    /\ hist["X"].finalize_status = Failure("boom")
    /\ join_status["X"] = Failure("boom")
    /\ tripped_by = "exit"

\* Actor y is idle: its initialize returned Ok, it was sent no message and no
\* command, and a mailbox other than its own is alive.
Idle(y) ==
    /\ hist[y].init_returned
    /\ hist[y].handler_err = NoStatus
    /\ hist[y].sent = 0
    /\ hist[y].cmds_sent = 0
    /\ mailboxes[y] > 0

\* Actor x has exited (ctx.exit was called) with a Failure.
ExitedWithFailure(x) ==
    /\ hist[x].exit_calls = 1
    /\ exit_status_opt[x].kind = "Failure"

\* Once x has exited with a Failure the switch is tripped, and an idle y
\* begins at most one more receive cycle and decides nothing but Killed.
FailureKillsIdlePeer ==
    \A x \in Spawned, y \in Spawned :
        (x # y /\ ExitedWithFailure(x) /\ Idle(y)) =>
            /\ kill_switch
            /\ hist[y].cycles_after_kill <= 1
            /\ hist[y].decided \in {NoStatus, Killed}
            /\ pc[y] = "done" => exit_status_opt[y] = Killed
            /\ join_status[y] \in {NoStatus, Killed, Panicked}

\* C10: two actors on one kill switch: once one has exited with a Failure the
\* switch is tripped, and an idle peer begins at most one more receive cycle
\* and decides nothing but Killed; the task of the idle Y ends after X has
\* exited with a Failure (unless Y stops being idle first).
C10_FailureEndsIdlePeer ==
    /\ []FailureKillsIdlePeer
    /\ (ExitedWithFailure("X") /\ Idle("Y")) ~> (pc["Y"] \in EndPcs \/ ~Idle("Y"))

\* C10 witness: X failed on its message and tripped the switch while the idle
\* Y was inside a receive cycle; Y has returned Killed.
C10_Witness ==
    /\ ExitedWithFailure("X")
    /\ hist["X"].err_in = "process_message"
    /\ tripped_by = "exit"
    /\ Idle("Y")
    /\ hist["Y"].trip_phase = "late"
    /\ hist["Y"].cycles_after_kill = 1
    /\ join_status["Y"] = Killed

\* The messages passed to process_message are the first ones sent, in send order.
InSendOrder(a) == processed[a] = [i \in 1..Len(processed[a]) |-> i]

\* Pause scenario: the Resume command has been dispatched (both commands were
\* received, and no tripped switch made the loop drop one).
ResumeDispatched(a) ==
    /\ hist[a].cmds_sent = 2
    /\ cmdq[a] = <<>>
    /\ recv_res[a].tag # "Command"
    /\ ~kill_switch

\* Something other than the scenario ended the actor: the kill switch, a
\* handler that returned Err, or a panic.
Interrupted(a) ==
    \/ kill_switch
    \/ hist[a].handler_err # NoStatus
    \/ pc[a] = "panicked"

\* While the actor is paused no message is in hand and no handler runs; in
\* the pause scenario nothing is passed to process_message before Resume.
NoMessageWhilePaused ==
    \A a \in Spawned :
        /\ actor_state[a] = "Paused" =>
               (pc[a] # "handler" /\ recv_res[a].tag # "Message")
        /\ (processed[a] # <<>> \/ recv_res[a].tag = "Message") =>
               /\ hist[a].cmds_sent = 2
               /\ "Resume" \notin {cmdq[a][i] : i \in 1..Len(cmdq[a])}
               /\ recv_res[a].cmd # "Resume"
        /\ InSendOrder(a)

\* C11: Pause, then messages m1..mk, then Resume: no process_message call
\* runs between the dispatch of Pause and the dispatch of Resume, and after
\* Resume all of m1..mk are processed, in send order (unless the kill switch,
\* a handler error or a panic ends the actor first).
C11_PausedMessagesWaitForResume ==
    /\ []NoMessageWhilePaused
    /\ [][\A a \in Spawned :
            actor_state[a] = "Paused" => processed'[a] = processed[a]]_vars
    /\ ResumeDispatched("X") ~>
           (processed["X"] = [i \in 1..hist["X"].sent |-> i] \/ Interrupted("X"))

\* C11 witness: Pause, two messages and Resume were sent; after the dispatch
\* of Resume both messages were processed, in order.
C11_Witness ==
    /\ ResumeDispatched("X")
    /\ hist["X"].sent = QueueCapacity
    /\ processed["X"] = [i \in 1..QueueCapacity |-> i]
    /\ actor_state["X"] = "Running"
    /\ ~Interrupted("X")

\* C12: whenever a command is pending at the time of a receive, that receive
\* returns the oldest pending command and leaves the messages queued; a
\* message is passed to process_message only by a cycle whose receive found
\* no command pending, so every command enqueued before a message is received
\* (and dispatched, the cycle being sequential) before that message.
C12_CommandsBeforeMessages ==
    /\ [][\A a \in Spawned :
            (pc[a] = "recv" /\ pc'[a] = "kill2" /\ cmdq[a] # <<>>) =>
                /\ recv_res'[a] = RecvCommand(Head(cmdq[a]))
                /\ cmdq'[a] = Tail(cmdq[a])
                /\ msgq'[a] = msgq[a]]_vars
    /\ [][\A a \in Spawned :
            (pc[a] = "recv" /\ recv_res'[a].tag = "Message") =>
                cmdq[a] = <<>>]_vars
    /\ [][\A a \in Spawned :
            processed'[a] # processed[a] =>
                (recv_res[a].tag = "Message" /\ pc[a] = "dispatch")]_vars

\* C12 witness: the receive of a running actor has returned a command; the
\* two messages sent so far are still queued and none was processed.
C12_Witness ==
    /\ pc["X"] = "kill2"
    /\ recv_res["X"] = RecvCommand("Observe")
    /\ actor_state["X"] = "Running"
    /\ msgq["X"] = <<1, 2>>
    /\ processed["X"] = <<>>

\* C13: messages are passed to process_message in send order, and a call
\* begins only when no handler of the actor is active: the loop stays in the
\* call until it returns, and while it is in the call it receives nothing,
\* dispatches no command and begins no other call.
C13_HandlersAreSerialized ==
    /\ [](\A a \in Spawned :
            /\ InSendOrder(a)
            /\ pc[a] = "handler" => (recv_res[a] = NoRecv /\ processed[a] # <<>>))
    /\ [][\A a \in Spawned :
            processed'[a] # processed[a] =>
                /\ pc[a] = "dispatch" /\ pc'[a] = "handler"
                /\ processed'[a] = Append(processed[a], Len(processed[a]) + 1)]_vars
    /\ [][\A a \in Spawned :
            pc[a] = "handler" =>
                /\ pc'[a] \in {"handler", "yield", "panicked"}
                /\ processed'[a] = processed[a]
                /\ recv_res'[a] = recv_res[a]
                /\ cmdq'[a] = cmdq[a] \/ Len(cmdq'[a]) > Len(cmdq[a])
                /\ actor_state'[a] = actor_state[a]
                /\ watch'[a] = watch[a]]_vars

\* C13 witness: the call for message 2 is active after the call for message 1
\* returned, with message 3 and a command waiting.
C13_Witness ==
    /\ pc["X"] = "handler"
    /\ processed["X"] = <<1, 2>>
    /\ msgq["X"] = <<3>>
    /\ cmdq["X"] # <<>>

\* Nothing but the drop of its mailboxes can end actor a: it was sent no
\* message and no command, the kill switch is not tripped, initialize did not
\* return Err, and its task did not panic.
Quiet(a) ==
    /\ hist[a].sent = 0
    /\ hist[a].cmds_sent = 0
    /\ ~kill_switch
    /\ hist[a].handler_err = NoStatus
    /\ pc[a] # "panicked"

\* Every mailbox handed out by spawn is dropped; only the context's is left.
AllDropped(a) == mailboxes[a] = 0

\* C14: when every mailbox handed out by spawn is dropped before any message
\* is sent, the receive cycle that ends next decides Success (its receive
\* reports Timeout or Disconnected), process_message is never called, and the
\* task ends with Success: the context's own mailbox keeps nothing alive.
C14_LastMailboxDroppedEndsTheActor ==
    /\ [](\A a \in Spawned :
            (AllDropped(a) /\ Quiet(a)) =>
                /\ processed[a] = <<>>
                /\ pc[a] # "handler"
                /\ hist[a].decided \in {NoStatus, Success}
                /\ pc[a] = "done" => exit_status_opt[a] = Success
                /\ join_status[a] \in {NoStatus, Success})
    /\ [][\A a \in Spawned :
            (AllDropped(a) /\ Quiet(a)) =>
                /\ (pc[a] = "recv" /\ pc'[a] = "kill2") =>
                       recv_res'[a] \in {RecvTimeoutErr, RecvDisconnected}
                /\ (pc[a] = "dispatch" /\ pc'[a] # "dispatch") =>
                       exit_status_opt'[a] = Success]_vars
    /\ (AllDropped("X") /\ Quiet("X")) ~> (pc["X"] = "done" \/ ~Quiet("X"))

\* C14 witness: every mailbox was dropped without a send, the loop made a
\* receive, and join yields Success with nothing processed.
C14_Witness ==
    /\ AllDropped("X") /\ Quiet("X")
    /\ hist["X"].received
    /\ join_status["X"] = Success
    /\ processed["X"] = <<>>
    /\ watch["X"] = <<>>

\* s is an initial segment of t.
IsPrefix(s, t) == Len(s) <= Len(t) /\ \A i \in 1..Len(s) : s[i] = t[i]

\* C15 as claimed: after join resolves, the last value of the watch is the
\* observable state the actor has after the loop body exited.
C15_WatchIsFinalAfterJoin ==
    \A a \in Spawned :
        (join_status[a] # NoStatus /\ hist[a].exit_calls = 1) =>
            watch[a] = ObservableState(a)

\* C15 as amended: once the task has returned (join resolves to a status other
\* than Panicked) the last value of the watch is the actor's observable state
\* as it is after finalize; after a panic the watch keeps the value last
\* published before it, an earlier state of the actor.
C15_WatchIsFinalUnlessPanicked ==
    \A a \in Spawned :
        /\ pc[a] = "done" => watch[a] = ObservableState(a)
        /\ join_status[a] \notin {NoStatus, Panicked} =>
               watch[a] = ObservableState(a)
        /\ join_status[a] = Panicked => IsPrefix(watch[a], ObservableState(a))

\* C15 witness: join resolved to Success after two messages; the watch, which
\* no Observe command had refreshed, holds the state after the second.
C15_Witness ==
    /\ join_status["X"] = Success
    /\ hist["X"].cmds_sent = 0
    /\ processed["X"] = <<1, 2>>
    /\ watch["X"] = <<1, 2>>

\* kill() was called while a process_message call of a was active, and no
\* handler of a has returned Err.
KilledMidHandler(a) ==
    /\ tripped_by = "handle"
    /\ hist[a].trip_phase = "handler"
    /\ hist[a].handler_err = NoStatus

\* What holds of an actor killed mid-handler: the call can still return, the
\* loop receives nothing more and decides nothing but Killed, at its next
\* boundary; finalize gets Killed and join yields it.
KilledMidHandlerExitsKilled ==
    \A a \in Spawned :
        KilledMidHandler(a) =>
            /\ pc[a] = "handler" => ENABLED ProcessMessageReturn(a, Ok)
            /\ pc[a] \notin {"recv", "kill2", "dispatch"}
            /\ hist[a].cycles_after_kill <= 1
            /\ hist[a].decided \in {NoStatus, Killed}
            /\ hist[a].finalize_calls = 1 => hist[a].finalize_status = Killed
            /\ pc[a] = "done" =>
                   (exit_status_opt[a] = Killed /\ hist[a].finalize_calls = 1)
            /\ join_status[a] \in {NoStatus, Killed, Panicked}

\* C16: kill() while a process_message call is suspended mid-await, the call
\* then returning Ok: the call is not interrupted (the loop leaves it only by
\* its return), no further message is processed, the loop decides Killed at
\* its next boundary, finalize runs with Killed, join yields Killed, and the
\* task ends.
C16_KillMidHandler ==
    /\ []KilledMidHandlerExitsKilled
    /\ [][\A a \in Spawned :
            KilledMidHandler(a) =>
                /\ processed'[a] = processed[a]
                /\ pc[a] = "handler" => pc'[a] \in {"handler", "yield", "panicked"}]_vars
    /\ KilledMidHandler("X") ~> (pc["X"] \in EndPcs)

\* C16 witness: kill() came during the call for message 1, which returned Ok;
\* message 2 stays queued, finalize ran with Killed and join yields Killed.
C16_Witness ==
    /\ KilledMidHandler("X")
    /\ processed["X"] = <<1>>
    /\ Len(msgq["X"]) >= 1
    /\ hist["X"].finalize_status = Killed
    /\ join_status["X"] = Killed

\* A sender holds a mailbox of a, has a message left to send, and the inbox
\* of a still exists.
SenderReady(a) ==
    /\ pc[a] \notin EndPcs
    /\ mailboxes[a] > 0
    /\ hist[a].sent < limits[a].msgs

\* C17: the messages enqueued and not yet received never exceed the capacity;
\* a send completes only into a free slot, is suspended exactly while the
\* lane is full, and completes (it is not refused) once the loop has received
\* a message.
C17_SendWaitsForAFreeSlot ==
    /\ [](\A a \in Spawned :
            /\ Len(msgq[a]) <= QueueCapacity
            /\ SenderReady(a) => (ENABLED Send(a) <=> Len(msgq[a]) < QueueCapacity))
    /\ [][\A a \in Spawned :
            Len(msgq'[a]) > Len(msgq[a]) =>
                /\ Len(msgq[a]) < QueueCapacity
                /\ msgq'[a] = Append(msgq[a], hist[a].sent + 1)]_vars

\* C17 witness: with the lane full the loop received message 1, and the send
\* of message 3, one more than the capacity, then completed.
C17_Witness ==
    /\ hist["X"].sent = QueueCapacity + 1
    /\ Len(msgq["X"]) = QueueCapacity
    /\ recv_res["X"] = RecvMessage(1)
    /\ processed["X"] = <<>>

\* Where a non-panicking exit stands, step by step: decided, ctx.exit done,
\* finalize begun, final state published.
ExitStepsInOrder ==
    \A a \in Spawned :
        /\ hist[a].exit_calls <= 1
        /\ actor_state[a] = "Exit" <=> hist[a].exit_calls = 1
        /\ pc[a] = "exit" =>
               /\ exit_status_opt[a] # NoStatus
               /\ hist[a].exit_calls = 0
               /\ hist[a].finalize_calls = 0
        /\ pc[a] \in {"finalize", "finalizing", "finalize_failed", "publish", "done"} =>
               /\ hist[a].exit_calls = 1
               /\ actor_state[a] = "Exit"
               /\ exit_status_opt[a].kind = "Failure" => kill_switch
               /\ hist[a].finalize_calls = (IF pc[a] = "finalize" THEN 0 ELSE 1)
        /\ hist[a].finalize_calls = 1 =>
               /\ hist[a].exit_calls = 1
               /\ hist[a].finalize_status = exit_status_opt[a]
        /\ pc[a] = "done" => watch[a] = ObservableState(a)
        /\ join_status[a] # NoStatus => pc[a] \in EndPcs

\* C19: on every non-panicking exit: the status is decided; ctx.exit sets the
\* state to Exit and trips the kill switch iff the status is fatal; then
\* finalize runs with the status; then the final observable state is
\* published; then the task resolves.  During finalize the state is Exit and,
\* for a Failure, the switch is tripped.
C19_ExitSequence ==
    /\ []ExitStepsInOrder
    /\ [][\A a \in Spawned :
            /\ (pc[a] = "exit" /\ pc'[a] # "exit") =>
                   /\ pc'[a] = "finalize"
                   /\ actor_state'[a] = "Exit"
                   /\ kill_switch' = (kill_switch \/
                          exit_status_opt[a].kind \in {"Failure", "Panicked"})
            /\ hist'[a].finalize_calls # hist[a].finalize_calls =>
                   (pc[a] = "finalize" /\ pc'[a] = "finalizing")
            /\ pc[a] \in {"exit", "finalize", "finalizing", "finalize_failed"} =>
                   (watch'[a] = watch[a] /\ exit_status_opt'[a] = exit_status_opt[a])
            /\ (pc'[a] = "done" /\ pc[a] # "done") =>
                   (pc[a] = "publish" /\ watch'[a] = ObservableState(a))
            /\ join_status'[a] # join_status[a] => pc[a] \in EndPcs]_vars

\* C19 witness: finalize is running for a Failure: the state is Exit, ctx.exit
\* has tripped the switch, and the final state is not published yet.
C19_Witness ==
    /\ pc["X"] = "finalizing"
    /\ exit_status_opt["X"] = Failure("boom")
    /\ actor_state["X"] = "Exit"
    /\ tripped_by = "exit"
    /\ processed["X"] = <<1>>
    /\ watch["X"] = <<>>

\* The loop of a has dispatched a Quit command: Quit was decided, and not by
\* a handler returning Err(Quit).
QuitDispatched(a) ==
    /\ hist[a].decided = Quit
    /\ hist[a].handler_err = NoStatus

\* C20: the dispatch of a Quit command decides Quit; after it the loop makes
\* no receive and no process_message call (messages queued behind the command
\* stay queued), finalize is called with Quit, join yields Quit, and neither
\* the dispatch nor ctx.exit trips the kill switch.
C20_QuitCommandExitsWithQuit ==
    /\ [](\A a \in Spawned :
            QuitDispatched(a) =>
                /\ exit_status_opt[a] = Quit
                /\ pc[a] \notin {"kill1", "recv", "kill2", "dispatch", "handler"}
                /\ hist[a].finalize_calls = 1 => hist[a].finalize_status = Quit
                /\ pc[a] = "done" => hist[a].finalize_calls = 1
                /\ join_status[a] \in {NoStatus, Quit, Panicked})
    /\ [][\A a \in Spawned :
            /\ (pc[a] = "dispatch" /\ recv_res[a] = RecvCommand("Quit")
                  /\ pc'[a] # "dispatch") =>
                   (exit_status_opt'[a] = Quit /\ kill_switch' = kill_switch)
            /\ QuitDispatched(a) =>
                   /\ processed'[a] = processed[a]
                   /\ msgq'[a] = msgq[a] \/ Len(msgq'[a]) > Len(msgq[a])
                   /\ (pc[a] = "exit" /\ pc'[a] # "exit") =>
                          kill_switch' = kill_switch]_vars

\* C20 witness: Quit was dispatched ahead of two queued messages; finalize
\* ran with Quit, join yields Quit, the messages are still queued and the
\* switch is not tripped.
C20_Witness ==
    /\ QuitDispatched("X")
    /\ msgq["X"] = <<1, 2>>
    /\ processed["X"] = <<>>
    /\ hist["X"].finalize_status = Quit
    /\ join_status["X"] = Quit
    /\ ~kill_switch

\* The separators of string s: the positions of its '.' runs, and both ends.
Separators(s) == {0, Len(s) + 1} \cup {i \in 1..Len(s) : s[i].ch = "."}

\* The labels of s: what lies between two neighbouring separators.
LabelsOf(s) ==
    {SubSeq(s, lo + 1, hi - 1) :
        <<lo, hi>> \in {p \in Separators(s) \X Separators(s) :
                          /\ p[1] < p[2]
                          /\ ~\E k \in Separators(s) : p[1] < k /\ k < p[2]}}

\* Number of characters of a string of runs.
CharCount(s) == LET RECURSIVE Sum(_)
                    Sum(i) == IF i = 0 THEN 0 ELSE s[i].n + Sum(i - 1)
                IN Sum(Len(s))

\* The hostnames of the claim: non-empty, at most 253 characters, only ASCII
\* alphanumerics, '-' and '.', every label non-empty, of at most 63
\* characters, and neither starting nor ending with '-'.
Rfc1123Hostname(s) ==
    /\ CharCount(s) >= 1
    /\ CharCount(s) <= 253
    /\ \A i \in 1..Len(s) : s[i].ch \in {"a", "1", "-", "."}
    /\ \A l \in LabelsOf(s) :
           /\ CharCount(l) >= 1
           /\ CharCount(l) <= 63
           /\ l[1].ch # "-"
           /\ l[Len(l)].ch # "-"

\* C18: is_valid_hostname(h) is true exactly for the hostnames of the claim,
\* and Host::from_str accepts a string that is no IP address iff it is one.
C18_ValidHostnames ==
    host_res # NotParsed =>
        /\ host_res.valid <=> Rfc1123Hostname(host)
        /\ ~ParsesAsIpAddr(host) =>
               (host_res.parsed = "Hostname" <=> Rfc1123Hostname(host))
        /\ ~ParsesAsIpAddr(host) =>
               (host_res.parsed = "Err" <=> ~Rfc1123Hostname(host))
        /\ ParsesAsIpAddr(host) => host_res.parsed = "IpAddr"

\* C18 witness: a hostname of exactly 253 characters, in four labels, was
\* accepted as a hostname.
C18_Witness ==
    /\ host_res = [valid |-> TRUE, parsed |-> "Hostname"]
    /\ StrLen(host) = MaxHostnameLen
    /\ Len(SplitDots(host)) = 4

\* C21: when the kill switch is found tripped right after a receive returned,
\* the loop decides Killed whatever was received and discards it: a message
\* stays removed from the mailbox and is never passed to process_message, a
\* command (Quit included) is never run by the command processor.
C21_KilledAfterReceiveDiscardsTheItem ==
    /\ [][\A a \in Spawned :
            (pc[a] = "kill2" /\ pc'[a] # "kill2" /\ kill_switch) =>
                /\ exit_status_opt'[a] = Killed
                /\ pc'[a] = "yield"
                /\ recv_res'[a] = NoRecv
                /\ processed'[a] = processed[a]
                /\ msgq'[a] = msgq[a]
                /\ cmdq'[a] = cmdq[a]
                /\ actor_state'[a] = actor_state[a]
                /\ watch'[a] = watch[a]]_vars
    /\ [][\A a \in Spawned :
            exit_status_opt[a] = Killed =>
                /\ processed'[a] = processed[a]
                /\ exit_status_opt'[a] = Killed
                /\ pc'[a] \notin {"recv", "kill2", "dispatch", "handler"}]_vars
    /\ [](\A a \in Spawned :
            /\ recv_res[a].tag = "Message" =>
                   /\ recv_res[a].msg \notin {msgq[a][i] : i \in 1..Len(msgq[a])}
                   /\ recv_res[a].msg \notin {processed[a][i] : i \in 1..Len(processed[a])}
            /\ pc[a] \in {"dispatch", "handler"} => hist[a].decided = NoStatus)

\* C21 witness: message 2 was received and then discarded for the tripped
\* switch: message 1 was processed, message 3 is still queued, message 2 is
\* in neither place, and join yields Killed.
C21_Witness ==
    /\ processed["X"] = <<1>>
    /\ msgq["X"] = <<3>>
    /\ recv_res["X"] = NoRecv
    /\ hist["X"].handler_err = NoStatus
    /\ join_status["X"] = Killed

\* C22 as claimed: whenever the loop itself has decided Success (the receive
\* returned Disconnected, or Timeout with is_last_mailbox() true) no message
\* remains enqueued: every message sent was passed to process_message.
C22_SuccessLeavesNoMessage ==
    \A a \in Spawned :
        (hist[a].decided = Success /\ hist[a].handler_err = NoStatus) =>
            /\ msgq[a] = <<>>
            /\ Len(processed[a]) = hist[a].sent

====
